---- MODULE Spec2Model ----
(***************************************************************************)
(* Model of src/src/index.ts: an Express server that keeps a visit count   *)
(* in a MongoDB collection (model Visit) behind a NodeCache entry          *)
(* "visitCount" with a 600 second time to live.                            *)
(*                                                                         *)
(* One action is one task of the Node event loop: the arrival of a         *)
(* request (middleware, route handler and everything up to the first       *)
(* await that needs I/O), the database applying a command, or the          *)
(* continuation that runs when a database reply (or failure) comes back.   *)
(* Code between two awaits of I/O runs without interleaving, and so is     *)
(* one action; the database applies a command at some moment between the   *)
(* call and the continuation, and that moment is an action of its own.     *)
(*                                                                         *)
(* Spec is the running server under /api/visit requests, FairSpec adds     *)
(* that every store operation settles, and ServerSpec is the life of the   *)
(* process (start, connect, SIGINT, exit) with the probe routes /health    *)
(* and /readiness behind the rate limiter.                                 *)
(***************************************************************************)
EXTENDS Integers, Sequences, FiniteSets, TLC

\* ---------------------------------------------------------------- bounds
NumReqs == 3        \* /api/visit requests in a run
MaxTime == 601      \* the clock stops here (seconds)
MaxStart == 1       \* largest count a record left by an earlier run holds
MaxSignals == 2     \* SIGINTs a run receives
MaxOver == 1        \* requests a client sends beyond the limiter's max in a window

\* ------------------------------------------------------ program constants
TTL == 600          \* new NodeCache({ stdTTL: 600, ... }), seconds
RateMax == 100      \* rateLimit({ ..., max: 100 }), requests of a client in a window

Reqs == 1..NumReqs

\* Error.message of a store failure.
ErrMsgs == {"store unreachable"}

\* How far the clock moves in one step: up to the last second of a time to
\* live, and one second past it.
TickSteps == {TTL, TTL + 1}

VARIABLES
  store,      \* the Visit collection: the counts of its documents, in natural order
  cache,      \* visitCache: <<>>, or <<[v |-> value, t |-> expiry time, at |-> time
              \* of the set]>> for key "visitCount"
  now,        \* Date.now(), in seconds
  pc,         \* per request: "new", "find", "save", "saved", then "hit" (the
              \* call returned the cached value), "done" (it returned the saved
              \* count) or "failed" (an awaited store operation rejected)
  visit,      \* per request: the local `visit` document [id, count]; id 0 is none yet
  outcome,    \* per request: the promise updateVisitCount returned
  resp,       \* per request: the responses sent, in order
  solo,       \* per request in flight: history, see below
  initPc,     \* initializeDatabase: "idle" (not called yet), "find", "create",
              \* then "done" or "failed" (the catch ran)
  initPre,    \* history: the store held a record when initializeDatabase was called
  boot,       \* "load" (the module has not run yet), "binding" (app.listen was
              \* called), "listening"
  conn,       \* mongoose.connection.readyState: 0 disconnected, 1 connected,
              \* 2 connecting, 3 disconnecting
  closing,    \* runs of the SIGINT handler that await connection.close()
  exit,       \* <<>> while the process runs, <<code>> once process.exit(code) ran
  hits,       \* the limiter's count of the client's requests in the current window
  probe,      \* the answer to the latest GET /health or GET /readiness: <<>> or
              \* <<[route, res]>>
  log         \* the lines the logger has written

srv == <<boot, conn, closing, exit, hits, probe>>

vars == <<store, cache, now, pc, visit, outcome, resp, solo, initPc, initPre,
          boot, conn, closing, exit, hits, probe, log>>

\* ------------------------------------------------------------ the logger
LogLine(level, msg) == [level |-> level, msg |-> msg]

\* The process has not called process.exit.
Running == exit = <<>>

\* ------------------------------------------------------------ the store
NoDoc == [id |-> 0, count |-> 0]

\* Visit.findOne(): the first document in natural order, or null (<<>>).
FindOne(s) == IF s = <<>> THEN <<>> ELSE <<[id |-> 1, count |-> s[1]]>>

\* A bug: the first document starts at the schema's default, 0.
NewVisitDefault == [id |-> 0, count |-> 0]

\* new Visit({ count: 1 }): a document that is not in the collection yet.
NewVisit == [id |-> 0, count |-> 1]

\* A bug: the sum is computed and dropped (visit.count + 1).
IncrementDropped(doc) == doc

\* visit.count += 1
Increment(doc) == [doc EXCEPT !.count = @ + 1]

\* A bug: a document that was read is saved as it was read.
NextVisitAsRead(found) == IF found = <<>> THEN NewVisit ELSE found[1]

\* Lines 119-124: the document updateVisitCount saves, from what findOne gave.
NextVisit(found) == IF found = <<>> THEN NewVisit ELSE Increment(found[1])

\* visit.save() as the database applies it: an insert for a new document,
\* a $set of count on the document's own _id for one that was read.
SaveDoc(s, doc) ==
  IF doc.id = 0 THEN Append(s, doc.count)
  ELSE [s EXCEPT ![doc.id] = doc.count]

\* The document as mongoose holds it once saved: a new one now has its place.
Saved(s, doc) == IF doc.id = 0 THEN [doc EXCEPT !.id = Len(s) + 1] ELSE doc

\* Visit.create({ count: 0 })
CreateZero(s) == Append(s, 0)

\* ------------------------------------------------------------ the cache
\* A bug: entries never expire (stdTTL: 0).
ExpiredNever(e, t) == FALSE

\* An entry is expired once its expiry time is in the past.
Expired(e, t) == e.t < t

\* visitCache.get("visitCount"): <<>> for undefined, <<v>> for a live entry.
CacheGet(c, t) == IF c = <<>> \/ Expired(c[1], t) THEN <<>> ELSE <<c[1].v>>

\* visitCache.set("visitCount", v): lives for stdTTL from now.
CacheSet(v, t) == <<[v |-> v, t |-> t + TTL, at |-> t]>>

\* A bug: the cached value is never used.
FalsyAlways(got) == TRUE

\* !visitCount : undefined and 0 are falsy.
Falsy(got) == got = <<>> \/ got[1] = 0

\* ------------------------------------------------- promises and responses
Pending == [kind |-> "pending", v |-> 0, err |-> ""]
Resolved(v) == [kind |-> "resolved", v |-> v, err |-> ""]
Rejected(e) == [kind |-> "rejected", v |-> 0, err |-> e]

\* A bug: updateVisitCount catches the rejection and returns 0.
AwaitSwallowed(e) == Resolved(0)

\* An awaited store operation rejected inside updateVisitCount: there is no
\* try/catch, so the promise updateVisitCount returned rejects with it.
AwaitRejected(e) == Rejected(e)

\* res.json({ visitCount })
VisitResponse(v) == [status |-> 200, body |-> [visitCount |-> v]]

\* A bug: the error middleware forgets status(500), and json() answers 200.
ErrorResponseNoStatus(e) ==
  [status |-> 200, body |-> [error |-> IF e = "" THEN "Internal Server Error" ELSE e]]

\* The error middleware: res.status(500).json({ error: err.message || "Internal Server Error" })
ErrorResponse(e) ==
  [status |-> 500, body |-> [error |-> IF e = "" THEN "Internal Server Error" ELSE e]]

\* A bug: the wrapper has no catch(next), and a rejected call is never answered.
AsyncHandlerNoCatch(o) ==
  IF o.kind = "resolved" THEN <<VisitResponse(o.v)>> ELSE <<>>

\* asyncHandler and the route: a resolved call is answered by the route,
\* a rejected one goes through catch(next) to the error middleware.
AsyncHandler(o) ==
  IF o.kind = "resolved" THEN <<VisitResponse(o.v)>>
  ELSE IF o.kind = "rejected" THEN <<ErrorResponse(o.err)>>
  ELSE <<>>

\* ------------------------------------------------------------- history
\* solo[r], while request r is in flight: <<f>> when nothing but this call has
\* touched the store or the cache since the call began, f being what findOne
\* would have returned when it began; <<>> once a step of another request, or
\* a create of initializeDatabase, fell in between (and when r is not in flight).
InFlight(r) == pc[r] \in {"find", "save", "saved"}

\* solo after a step of request r (which ends r's call or not), or after a
\* step of initializeDatabase (r = 0).
Interleave(r, ends) ==
  [q \in Reqs |-> IF q = r /\ ~ends THEN solo[q] ELSE <<>>]

\* The error middleware logs the stack of the error it answers.
ErrorLog(o) == IF o.kind = "rejected" THEN {LogLine("error", o.err)} ELSE {}

\* ---------------------------------------------------------------- Init
\* The server is up (listening, connected) and initializeDatabase awaits its
\* findOne.
Init ==
  /\ store \in {<<>>} \cup {<<n>> : n \in 0..MaxStart}
  /\ cache = <<>>
  /\ now = 0
  /\ pc = [r \in Reqs |-> "new"]
  /\ visit = [r \in Reqs |-> NoDoc]
  /\ outcome = [r \in Reqs |-> Pending]
  /\ resp = [r \in Reqs |-> <<>>]
  /\ solo = [r \in Reqs |-> <<>>]
  /\ initPc = "find"
  /\ initPre = (store # <<>>)
  /\ boot = "listening"
  /\ conn = 1
  /\ closing = 0
  /\ exit = <<>>
  /\ hits = 0
  /\ probe = <<>>
  /\ log = {}

\* ------------------------------------------------------- /api/visit
\* The request arrives; updateVisitCount reads the cache. On a hit it returns
\* the cached value and the route answers; on a miss it calls findOne.
Arrive(r) ==
  /\ Running /\ boot = "listening"
  /\ pc[r] = "new"
  /\ \A q \in Reqs : q < r => pc[q] # "new"   \* requests are numbered as they arrive
  /\ LET got == CacheGet(cache, now)
         began == IF \A q \in Reqs : ~InFlight(q) THEN <<FindOne(store)>> ELSE <<>>
     IN IF Falsy(got)
        THEN /\ pc' = [pc EXCEPT ![r] = "find"]
             /\ solo' = [Interleave(r, FALSE) EXCEPT ![r] = began]
             /\ UNCHANGED <<outcome, resp>>
        ELSE /\ pc' = [pc EXCEPT ![r] = "hit"]
             /\ outcome' = [outcome EXCEPT ![r] = Resolved(got[1])]
             /\ resp' = [resp EXCEPT ![r] = @ \o AsyncHandler(Resolved(got[1]))]
             /\ solo' = Interleave(r, TRUE)
  /\ UNCHANGED <<store, cache, now, visit, initPc, initPre>>
  /\ UNCHANGED <<srv, log>>

\* findOne replies: lines 120-125 build the document and call save.
FindOneReply(r) ==
  /\ Running
  /\ pc[r] = "find"
  /\ visit' = [visit EXCEPT ![r] = NextVisit(FindOne(store))]
  /\ pc' = [pc EXCEPT ![r] = "save"]
  /\ solo' = Interleave(r, FALSE)
  /\ UNCHANGED <<store, cache, now, outcome, resp, initPc, initPre>>
  /\ UNCHANGED <<srv, log>>

\* findOne fails: the call rejects and the error middleware answers.
FindOneFail(r, e) ==
  /\ Running
  /\ pc[r] = "find"
  /\ pc' = [pc EXCEPT ![r] = "failed"]
  /\ outcome' = [outcome EXCEPT ![r] = AwaitRejected(e)]
  /\ resp' = [resp EXCEPT ![r] = @ \o AsyncHandler(AwaitRejected(e))]
  /\ solo' = Interleave(r, TRUE)
  /\ UNCHANGED <<store, cache, now, visit, initPc, initPre>>
  /\ log' = log \cup ErrorLog(AwaitRejected(e))
  /\ UNCHANGED srv

\* The database applies the save.
SaveApply(r) ==
  /\ pc[r] = "save"
  /\ store' = SaveDoc(store, visit[r])
  /\ visit' = [visit EXCEPT ![r] = Saved(store, visit[r])]
  /\ pc' = [pc EXCEPT ![r] = "saved"]
  /\ solo' = Interleave(r, FALSE)
  /\ UNCHANGED <<cache, now, outcome, resp, initPc, initPre>>
  /\ UNCHANGED <<srv, log>>

\* save replies: lines 126-129 set the cache and return; the route answers.
SaveReply(r) ==
  /\ Running
  /\ pc[r] = "saved"
  /\ cache' = CacheSet(visit[r].count, now)
  /\ outcome' = [outcome EXCEPT ![r] = Resolved(visit[r].count)]
  /\ resp' = [resp EXCEPT ![r] = @ \o AsyncHandler(Resolved(visit[r].count))]
  /\ pc' = [pc EXCEPT ![r] = "done"]
  /\ visit' = [visit EXCEPT ![r] = NoDoc]
  /\ solo' = Interleave(r, TRUE)
  /\ UNCHANGED <<store, now, initPc, initPre>>
  /\ UNCHANGED <<srv, log>>

\* save fails, before the database applied it or after (the reply is lost).
SaveFail(r, e) ==
  /\ Running
  /\ pc[r] \in {"save", "saved"}
  /\ pc' = [pc EXCEPT ![r] = "failed"]
  /\ outcome' = [outcome EXCEPT ![r] = AwaitRejected(e)]
  /\ resp' = [resp EXCEPT ![r] = @ \o AsyncHandler(AwaitRejected(e))]
  /\ visit' = [visit EXCEPT ![r] = NoDoc]
  /\ solo' = Interleave(r, TRUE)
  /\ UNCHANGED <<store, cache, now, initPc, initPre>>
  /\ log' = log \cup ErrorLog(AwaitRejected(e))
  /\ UNCHANGED srv

\* ------------------------------------------------- initializeDatabase
\* Called once, when the module loads (line 76).
\* A bug: the create is not guarded by the findOne.
NeedsCreateAlways(found) == TRUE

\* if (!visit)
NeedsCreate(found) == found = <<>>

\* findOne replies: create is called only when there is no document.
InitFindOne ==
  /\ Running
  /\ initPc = "find"
  /\ initPc' = IF NeedsCreate(FindOne(store)) THEN "create" ELSE "done"
  /\ UNCHANGED <<store, cache, now, pc, visit, outcome, resp, solo, initPre>>
  /\ UNCHANGED <<srv, log>>

\* The database applies the create; the continuation only logs.
InitCreate ==
  /\ Running
  /\ initPc = "create"
  /\ store' = CreateZero(store)
  /\ initPc' = "done"
  /\ solo' = Interleave(0, FALSE)
  /\ UNCHANGED <<cache, now, pc, visit, outcome, resp, initPre>>
  /\ log' = log \cup {LogLine("info", "Initialized visit count in database.")}
  /\ UNCHANGED srv

\* findOne or create fails: the catch logs the error, and the call is over.
InitFail ==
  /\ Running
  /\ initPc \in {"find", "create"}
  /\ initPc' = "failed"
  /\ UNCHANGED <<store, cache, now, pc, visit, outcome, resp, solo, initPre>>
  /\ log' = log \cup {LogLine("error", "Error initializing database:")}
  /\ UNCHANGED srv

\* ------------------------------------------------------ the environment
Tick(d) ==
  /\ now + d <= MaxTime
  /\ now' = now + d
  /\ UNCHANGED <<store, cache, pc, visit, outcome, resp, solo, initPc, initPre>>
  /\ UNCHANGED <<srv, log>>

\* NodeCache's periodic check (checkperiod: 120) deletes an expired entry.
CheckData ==
  /\ Running
  /\ cache # <<>>
  /\ Expired(cache[1], now)
  /\ cache' = <<>>
  /\ UNCHANGED <<store, now, pc, visit, outcome, resp, solo, initPc, initPre>>
  /\ UNCHANGED <<srv, log>>

Next ==
  \/ \E r \in Reqs : Arrive(r)
  \/ \E r \in Reqs : FindOneReply(r)
  \/ \E r \in Reqs, e \in ErrMsgs : FindOneFail(r, e)
  \/ \E r \in Reqs : SaveApply(r)
  \/ \E r \in Reqs : SaveReply(r)
  \/ \E r \in Reqs, e \in ErrMsgs : SaveFail(r, e)
  \/ InitFindOne
  \/ InitCreate
  \/ InitFail
  \/ \E d \in TickSteps : Tick(d)
  \/ CheckData

Spec == Init /\ [][Next]_vars

\* The store settles the operation request r awaits (it completes or it fails),
\* and the event loop then runs r's continuation.
StoreSettles(r) ==
  \/ FindOneReply(r)
  \/ SaveApply(r)
  \/ SaveReply(r)
  \/ \E e \in ErrMsgs : FindOneFail(r, e) \/ SaveFail(r, e)

\* Every store operation a request issues eventually completes or fails.
FairSpec == Spec /\ \A r \in Reqs : WF_vars(StoreSettles(r))

\* ------------------------------------------------- the process and its probes
\* The /api/visit side of the state: no request has arrived.
NoVisits ==
  /\ cache = <<>>
  /\ pc = [r \in Reqs |-> "new"]
  /\ visit = [r \in Reqs |-> NoDoc]
  /\ outcome = [r \in Reqs |-> Pending]
  /\ resp = [r \in Reqs |-> <<>>]
  /\ solo = [r \in Reqs |-> <<>>]

\* What no step of the process or of a probe touches.
visits == <<cache, pc, visit, outcome, resp, solo>>

\* The process is started: nothing of the module has run yet.
ServerInit ==
  /\ store \in {<<>>} \cup {<<n>> : n \in 0..MaxStart}
  /\ now = 0
  /\ NoVisits
  /\ initPc = "idle"
  /\ initPre = FALSE
  /\ boot = "load"
  /\ conn = 0
  /\ closing = 0
  /\ exit = <<>>
  /\ hits = 0
  /\ probe = <<>>
  /\ log = {}

\* The module runs to its end: mongoose.connect is called (line 51),
\* initializeDatabase is called and awaits findOne (line 76), the handlers of
\* SIGINT and of the unhandled errors are registered, app.listen is called.
Startup ==
  /\ Running
  /\ boot = "load"
  /\ boot' = "binding"
  /\ conn' = 2
  /\ initPc' = "find"
  /\ initPre' = (store # <<>>)
  /\ UNCHANGED <<store, now, closing, exit, hits, probe, log>>
  /\ UNCHANGED visits

\* The callback of app.listen.
Listening ==
  /\ Running
  /\ boot = "binding"
  /\ boot' = "listening"
  /\ log' = log \cup {LogLine("info", "Server is running on port")}
  /\ UNCHANGED <<store, now, initPc, initPre, conn, closing, exit, hits, probe>>
  /\ UNCHANGED visits

\* The connection opens: the "connected" listener and the then() log.
ConnectOk ==
  /\ Running
  /\ conn = 2
  /\ conn' = 1
  /\ log' = log \cup {LogLine("info", "MongoDB connected"),
                      LogLine("info", "Connected to MongoDB")}
  /\ UNCHANGED <<store, now, initPc, initPre, boot, closing, exit, hits, probe>>
  /\ UNCHANGED visits

\* A bug: the catch of the connect ends the process.
ConnectCatchExits == [line |-> LogLine("error", "Error connecting to MongoDB:"),
                      exit |-> <<1>>]

\* .catch((err) => logger.error("Error connecting to MongoDB:", err)): the
\* line it logs, and the exit it makes (none).
ConnectCatch == [line |-> LogLine("error", "Error connecting to MongoDB:"),
                 exit |-> <<>>]

\* The connect fails: the promise rejects and the catch runs.
ConnectFail ==
  /\ Running
  /\ conn = 2
  /\ conn' = 0
  /\ log' = log \cup {ConnectCatch.line}
  /\ exit' = ConnectCatch.exit
  /\ UNCHANGED <<store, now, initPc, initPre, boot, closing, hits, probe>>
  /\ UNCHANGED visits

\* The open connection is lost: the "disconnected" listener logs.
Disconnect ==
  /\ Running
  /\ conn = 1
  /\ conn' = 0
  /\ log' = log \cup {LogLine("info", "MongoDB disconnected")}
  /\ UNCHANGED <<store, now, initPc, initPre, boot, closing, exit, hits, probe>>
  /\ UNCHANGED visits

\* readyState after connection.close() is called: an open or opening
\* connection starts to close.
CloseCalled(c) == IF c \in {1, 2} THEN 3 ELSE c

\* SIGINT: the handler logs and awaits connection.close().
SigInt ==
  /\ Running
  /\ boot # "load"
  /\ closing < MaxSignals
  /\ closing' = closing + 1
  /\ log' = log \cup {LogLine("info", "Shutting down...")}
  /\ conn' = CloseCalled(conn)
  /\ UNCHANGED <<store, now, initPc, initPre, boot, exit, hits, probe>>
  /\ UNCHANGED visits

\* The connection finishes closing.
ConnClosed ==
  /\ Running
  /\ conn = 3
  /\ conn' = 0
  /\ log' = log \cup {LogLine("info", "MongoDB disconnected")}
  /\ UNCHANGED <<store, now, initPc, initPre, boot, closing, exit, hits, probe>>
  /\ UNCHANGED visits

\* A bug: close() is not awaited.
CloseResolvedAlways(c) == TRUE

\* await mongoose.connection.close() resolves once the connection is closed.
CloseResolved(c) == c = 0

\* close() resolved: the handler goes on to process.exit(0).
CloseReply ==
  /\ Running
  /\ closing > 0
  /\ CloseResolved(conn)
  /\ exit' = <<0>>
  /\ UNCHANGED <<store, now, initPc, initPre, boot, conn, closing, hits, probe, log>>
  /\ UNCHANGED visits

\* close() rejects: the promise of the async handler rejects, nothing
\* catches it, and the "unhandledRejection" handler logs and exits with 1.
CloseFail ==
  /\ Running
  /\ closing > 0
  /\ conn = 3
  /\ log' = log \cup {LogLine("error", "Unhandled Rejection at:")}
  /\ exit' = <<1>>
  /\ UNCHANGED <<store, now, initPc, initPre, boot, conn, closing, hits, probe>>
  /\ UNCHANGED visits

\* A bug: the limiter lets one request fewer through.
AdmittedBelow(n) == n < RateMax

\* The limiter, for the n-th request of the client in the window: it calls
\* next() up to max, and answers by itself after.
Admitted(n) == n <= RateMax

\* The limiter's own answer.
LimitedResponse ==
  [status |-> 429, body |-> "Too many requests, please try again later."]

\* res.send({ status: "OK", uptime: process.uptime() })
HealthResponse(up) == [status |-> 200, body |-> [status |-> "OK", uptime |-> up]]

\* A bug: /readiness takes a connection that is opening for an open one.
ReadinessResponseTruthy(c) ==
  IF c \in {1, 2} THEN [status |-> 200, body |-> [status |-> "Ready"]]
  ELSE [status |-> 500, body |-> [status |-> "Not Ready"]]

\* Lines 107-112.
ReadinessResponse(c) ==
  IF c = 1 THEN [status |-> 200, body |-> [status |-> "Ready"]]
  ELSE [status |-> 500, body |-> [status |-> "Not Ready"]]

\* A request of the client for a probe route goes through the limiter, which
\* counts it, and reaches the route when the limiter admits it.
Probe(route, answer) ==
  /\ Running
  /\ boot = "listening"
  /\ hits < RateMax + MaxOver
  /\ hits' = hits + 1
  /\ probe' = <<[route |-> route,
                 res |-> IF Admitted(hits + 1) THEN answer ELSE LimitedResponse]>>
  /\ UNCHANGED <<store, now, initPc, initPre, boot, conn, closing, exit, log>>
  /\ UNCHANGED visits

\* GET /health; the process started at time 0.
Health == Probe("/health", HealthResponse(now))

\* GET /readiness
Readiness == Probe("/readiness", ReadinessResponse(conn))

\* The limiter's window of the client (windowMs) ends: its count starts again.
WindowReset ==
  /\ hits > 0
  /\ hits' = 0
  /\ UNCHANGED <<store, now, initPc, initPre, boot, conn, closing, exit, probe, log>>
  /\ UNCHANGED visits

ServerNext ==
  \/ Startup
  \/ Listening
  \/ ConnectOk
  \/ ConnectFail
  \/ Disconnect
  \/ InitFindOne
  \/ InitCreate
  \/ InitFail
  \/ SigInt
  \/ ConnClosed
  \/ CloseReply
  \/ CloseFail
  \/ Health
  \/ Readiness
  \/ WindowReset
  \/ \E d \in TickSteps : Tick(d)

ServerSpec == ServerInit /\ [][ServerNext]_vars

\* ------------------------------------------------------------- claims
\* C1: whenever the cache holds a non-zero value v under "visitCount" that has
\* not expired, a call of updateVisitCount returns exactly v, builds and saves
\* no document, and leaves the store and the cache entry unchanged.
CacheHitShortCircuit ==
  [][\A r \in Reqs :
       (pc[r] = "new" /\ pc'[r] # "new"
          /\ cache # <<>> /\ cache[1].t >= now /\ cache[1].v # 0)
       => /\ pc'[r] = "hit"
          /\ outcome'[r] = Resolved(cache[1].v)
          /\ visit'[r] = NoDoc
          /\ store' = store
          /\ cache' = cache]_vars

\* A request was answered from the cache, with the value the cache holds.
CacheHitWitness ==
  \E r \in Reqs :
    /\ pc[r] = "hit"
    /\ cache # <<>>
    /\ outcome[r] = Resolved(cache[1].v)
    /\ resp[r] = <<VisitResponse(cache[1].v)>>

\* C2: for every n >= 0, given a store whose record holds count n and a cache
\* that is absent or expired, a call of updateVisitCount with nothing else
\* interleaved persists n + 1, caches n + 1 and returns n + 1.
CacheMissIncrementExisting ==
  [][\A r \in Reqs :
       (pc[r] = "saved" /\ pc'[r] = "done" /\ solo[r] # <<>> /\ solo[r][1] # <<>>)
       => LET n == solo[r][1][1].count
          IN /\ n >= 0
             /\ store' = store
             /\ store[1] = n + 1
             /\ cache' = <<[v |-> n + 1, t |-> now + TTL, at |-> now]>>
             /\ outcome'[r] = Resolved(n + 1)
             /\ resp'[r] = <<VisitResponse(n + 1)>>]_vars

\* The first request ran alone against a record at 1: 2 is stored, cached, returned.
CacheMissExistingWitness ==
  /\ pc[1] = "done"
  /\ \A q \in Reqs \ {1} : pc[q] = "new"
  /\ store = <<2>>
  /\ cache # <<>> /\ cache[1].v = 2
  /\ resp[1] = <<VisitResponse(2)>>

\* C3: given an empty store and an empty cache, a call of updateVisitCount with
\* nothing else interleaved creates a record with count 1, caches 1, returns 1.
CacheMissIncrementNoRecord ==
  [][\A r \in Reqs :
       (pc[r] = "saved" /\ pc'[r] = "done" /\ solo[r] = << <<>> >>)
       => /\ store' = store
          /\ store = <<1>>
          /\ cache' = <<[v |-> 1, t |-> now + TTL, at |-> now]>>
          /\ outcome'[r] = Resolved(1)
          /\ resp'[r] = <<VisitResponse(1)>>]_vars

\* The first request ran alone against an empty store (initializeDatabase found
\* it empty too and has not created its record yet): the record it created
\* holds 1, and 1 is cached and returned.
CacheMissNoRecordWitness ==
  /\ pc[1] = "done"
  /\ \A q \in Reqs \ {1} : pc[q] = "new"
  /\ initPc = "create"
  /\ store = <<1>>
  /\ cache # <<>> /\ cache[1].v = 1
  /\ resp[1] = <<VisitResponse(1)>>

\* C4: the store holds at most one Visit record in every reachable state.
SingletonRecord == Len(store) <= 1

\* C5: two cache-miss requests that both read the record at count n before
\* either saved leave n + 2 persisted once both have completed. (Two calls
\* that returned the same count m both read m - 1; with one record in the
\* store and no other request begun, both read it before either save.)
ConcurrentIncrementsBothCount ==
  \A r1, r2 \in Reqs :
    (/\ r1 # r2
     /\ pc[r1] = "done" /\ pc[r2] = "done"
     /\ outcome[r1] = outcome[r2]
     /\ Len(store) = 1
     /\ \A q \in Reqs \ {r1, r2} : pc[q] = "new")
    => store[1] = (outcome[r1].v - 1) + 2

\* C6: while the cache holds an unexpired entry, its value is not greater than
\* the count persisted in the store (the largest, should there be several records).
CacheNeverAboveStore ==
  (cache # <<>> /\ cache[1].t >= now)
  => \E i \in 1..Len(store) : cache[1].v <= store[i]


\* C7: if findOne or save fails during a call of updateVisitCount, the call
\* rejects with that failure, and no step of the call has touched the cache:
\* the failing step leaves it as it is, and so does every step of a call
\* other than the one that returns the saved count.
StoreFailureLeavesCache ==
  [][\A r \in Reqs :
       /\ (pc[r] # "failed" /\ pc'[r] = "failed")
            => /\ pc[r] \in {"find", "save", "saved"}
               /\ \E e \in ErrMsgs : outcome'[r] = Rejected(e)
               /\ cache' = cache
       /\ (pc'[r] # pc[r] /\ pc'[r] # "done") => cache' = cache]_vars

\* A save failed after another request had filled the cache: the entry is
\* still the other request's.
StoreFailureWitness ==
  \E r, q \in Reqs :
    /\ pc[r] = "failed" /\ outcome[r].kind = "rejected"
    /\ pc[q] = "done"
    /\ \A p \in Reqs \ {r, q} : pc[p] = "new"
    /\ cache # <<>> /\ outcome[q] = Resolved(cache[1].v)

\* C8: a request during which a store operation failed has exactly one
\* response, with status 500 and a body {error: string}; no request has more
\* than one response.
ErrorNormalization ==
  \A r \in Reqs :
    /\ Len(resp[r]) <= 1
    /\ pc[r] = "failed"
         => /\ Len(resp[r]) = 1
            /\ resp[r][1].status = 500
            /\ DOMAIN resp[r][1].body = {"error"}
            /\ resp[r][1].body.error \in STRING

\* Both a findOne and a save have failed, and each request has its 500.
ErrorNormalizationWitness ==
  \E r, q \in Reqs :
    /\ r # q
    /\ pc[r] = "failed" /\ pc[q] = "failed"
    /\ resp[r] = <<ErrorResponse("store unreachable")>>
    /\ resp[q] = resp[r]
    /\ store = <<1>> /\ initPc = "create"

\* C9: a cached value set at time T is absent for a call at T + 601 or later
\* (no set in between): the call does not return it but calls findOne, and
\* the findOne is followed by the save unless it fails, and the save, once
\* applied, has put the call's count into the store.
CacheExpiry ==
  [][\A r \in Reqs :
       /\ (pc[r] = "new" /\ pc'[r] # "new" /\ cache # <<>> /\ now >= cache[1].at + 601)
            => /\ pc'[r] = "find"
               /\ outcome'[r] = Pending
               /\ resp'[r] = <<>>
       /\ (pc[r] = "find" /\ pc'[r] # "find") => pc'[r] \in {"save", "failed"}
       /\ (pc[r] = "save" /\ pc'[r] = "saved")
            => store'[visit'[r].id] = visit'[r].count]_vars

\* A call that began after the entry was set, with nothing else interleaved,
\* is waiting for findOne while the entry, 601 seconds old, is still held.
CacheExpiryWitness ==
  \E r \in Reqs :
    /\ pc[r] = "find" /\ solo[r] # <<>>
    /\ cache # <<>> /\ cache[1].v # 0
    /\ now >= cache[1].at + 601

\* C10: a call of initializeDatabase against a store that already holds a
\* record never calls create and changes nothing in the store, whichever
\* record an earlier run left there.
IdempotentBootstrap ==
  [][(initPc' # initPc /\ initPre')
       => /\ initPc' \in {"find", "done", "failed"}
          /\ store' = store
          /\ store # <<>>]_vars

\* initializeDatabase has run to its end against a store that held a record.
IdempotentBootstrapWitness ==
  /\ initPre /\ initPc = "done"
  /\ store = <<0>>
  /\ \A r \in Reqs : pc[r] = "new"

HealthAlwaysOk ==
  \A k \in DOMAIN probe :
    probe[k].route = "/health"
      => /\ probe[k].res.status = 200
         /\ probe[k].res.body.status = "OK"

\* C12, amended: a GET /health that the limiter admits (one of the client's
\* first RateMax requests of the window) is answered 200 {status: "OK", uptime}
\* whatever the connection state; one beyond that is answered 429 by the limiter.
HealthOkWhenAdmitted ==
  [][(hits' = hits + 1 /\ probe'[1].route = "/health")
       => IF hits < RateMax
          THEN probe'[1].res = [status |-> 200, body |-> [status |-> "OK", uptime |-> now]]
          ELSE probe'[1].res.status = 429]_vars

\* The last request the limiter admits in a window is a GET /health, answered
\* 200 with the uptime while the store connection is down.
HealthOkWitness ==
  /\ hits = RateMax
  /\ probe = <<[route |-> "/health",
                res |-> [status |-> 200, body |-> [status |-> "OK", uptime |-> TTL]]]>>
  /\ conn = 0

\* C13, as claimed: the process exits only after a SIGINT was logged and the
\* close of the connection completed, and the exit code is always 0.
ShutdownExitsZero ==
  [][(exit = <<>> /\ exit' # <<>>)
       => /\ closing > 0
          /\ LogLine("info", "Shutting down...") \in log
          /\ conn = 0
          /\ exit' = <<0>>]_vars

\* C13, amended: a SIGINT is logged and the close of the connection is called
\* in the same step, without an exit; the process exits only after that, with
\* code 0 once the connection is closed, or with code 1, through the
\* "unhandledRejection" handler, when the close fails.
ShutdownExitCode ==
  [][/\ closing' > closing
          => /\ LogLine("info", "Shutting down...") \in log'
             /\ conn' \notin {1, 2}
             /\ exit' = <<>>
     /\ (exit = <<>> /\ exit' # <<>>)
          => /\ closing > 0
             /\ LogLine("info", "Shutting down...") \in log
             /\ \/ exit' = <<0>> /\ conn = 0
                \/ /\ exit' = <<1>>
                   /\ conn = 3
                   /\ LogLine("error", "Unhandled Rejection at:") \in log']_vars

\* The process exited with 0 after a connection that had been open was closed.
ShutdownWitness ==
  /\ exit = <<0>>
  /\ conn = 0
  /\ closing = 1
  /\ log = {LogLine("info", "Server is running on port"),
            LogLine("info", "MongoDB connected"),
            LogLine("info", "Connected to MongoDB"),
            LogLine("info", "Shutting down..."),
            LogLine("info", "MongoDB disconnected")}

PersistedCountNeverDecreases ==
  [][\A i \in DOMAIN store : store'[i] >= store[i]]_vars

\* C16: no count in the store is negative, every value the cache holds is at
\* least 1, and so is every visitCount a request was answered with.
CachedAndReturnedAtLeastOne ==
  /\ \A i \in DOMAIN store : store[i] >= 0
  /\ cache # <<>> => cache[1].v >= 1
  /\ \A r \in Reqs :
       /\ outcome[r].kind = "resolved" => outcome[r].v >= 1
       /\ \A k \in DOMAIN resp[r] :
            resp[r][k].status = 200 => resp[r][k].body.visitCount >= 1

\* The record initializeDatabase created at 0 was read and saved by a request:
\* 1 is stored, cached and returned.
CachedAndReturnedWitness ==
  \E r \in Reqs :
    /\ pc[r] = "done"
    /\ store = <<1>> /\ ~initPre /\ initPc = "done"
    /\ cache # <<>> /\ cache[1].v = 1
    /\ resp[r] = <<VisitResponse(1)>>

\* C17: every /api/visit request that was accepted is eventually answered, with
\* exactly one response, 200 {visitCount} or 500 {error}; no request is ever
\* answered twice, and a request in flight can always take its next step,
\* whatever the other requests are doing.
EveryVisitAnswered ==
  /\ \A r \in Reqs :
       (pc[r] # "new") ~> (pc[r] \in {"hit", "done", "failed"} /\ Len(resp[r]) = 1)
  /\ [](\A r \in Reqs :
          /\ Len(resp[r]) <= 1
          /\ pc[r] \in {"hit", "done", "failed"} => Len(resp[r]) = 1
          /\ \A k \in DOMAIN resp[r] :
               \/ resp[r][k].status = 200 /\ DOMAIN resp[r][k].body = {"visitCount"}
               \/ resp[r][k].status = 500 /\ DOMAIN resp[r][k].body = {"error"}
          /\ InFlight(r) => ENABLED <<StoreSettles(r)>>_vars)

\* All the requests are in flight at once, and one of them answered 200 and
\* another 500 at the end.
EveryVisitAnsweredWitness ==
  /\ \A r \in Reqs : pc[r] \in {"done", "failed"} /\ Len(resp[r]) = 1
  /\ \E r, q \in Reqs : resp[r][1].status = 200 /\ resp[q][1].status = 500
  /\ store = <<1, 1>>

====
